---- MODULE Spec2Model ----
(***************************************************************************)
(* Model of dev/dev-watch.py: a polling watcher that snapshots the watched *)
(* files of a directory tree as MD5 fingerprints, compares each snapshot   *)
(* with the retained one and prints the changed paths.                     *)
(*                                                                         *)
(* The directory tree is the environment.  An entry of the tree is absent, *)
(* a directory, a regular file that cannot be read ("locked"), or a        *)
(* regular file with some content.                                         *)
(***************************************************************************)
EXTENDS Integers, Sequences, FiniteSets, TLC

VARIABLES
    fs,              \* the directory tree: path -> entry state
    pc,              \* position of the script
    file_hashes,     \* the retained snapshot (line 57, line 89)
    current_hashes,  \* the snapshot of the running cycle (line 66)
    changed_files,   \* the change list of the running cycle (line 69)
    printed,         \* how many lines of changed_files are printed (line 83)
    farewell,        \* the farewell message is printed (line 92)
    exitCode,        \* exit status of the process; -1 while it runs
    cycled,          \* history: a poll cycle has been completed
    fsChanges,       \* changes the environment made to the tree
    enumFs,          \* history: the tree as the last scan enumerated it
    readFs,          \* history: the tree as the last scan read it
    cycleStart,      \* history: file_hashes when the running cycle began
    touched,         \* history: paths changed since the baseline enumeration
    reported,        \* history: relative paths printed in any report
    churn,           \* history: tree changes relative to the last scan
    stable,          \* history: what the last scan knew about tree changes
    exitedFrom       \* history: pc at which the script was stopped

vars == <<fs, pc, file_hashes, current_hashes, changed_files, printed,
          farewell, exitCode, cycled, fsChanges, enumFs, readFs, cycleStart,
          touched, reported, churn, stable, exitedFrom>>

-----------------------------------------------------------------------------
(* Bounds of the model *)

MaxFsChanges == 2

-----------------------------------------------------------------------------
(* Static configuration, lines 13-16 *)

WATCH_EXTENSIONS == <<".js", ".html", ".css", ".json">>
IGNORE_FILES == <<"dev-watch.py", "create-icons.py">>

\* The entries the tree may hold, each split as directory part, stem, suffix.
Paths == {
    [dir |-> "",         stem |-> "a",            ext |-> ".js"],
    [dir |-> "",         stem |-> "lib",          ext |-> ".js"],
    [dir |-> "",         stem |-> "b",            ext |-> ".css"],
    [dir |-> "scripts/", stem |-> "create-icons", ext |-> ".py"],
    [dir |-> "",         stem |-> "notes",        ext |-> ".txt"] }

\* filepath.name
Name(p) == p.stem \o p.ext
\* str(filepath.relative_to(WATCH_DIR))
RelPath(p) == p.dir \o p.stem \o p.ext

Absent == "absent"
Dir == "dir"
Locked == "locked"
Contents == {"x", "y"}
EntryStates == {Absent, Dir, Locked} \cup Contents

\* What the environment makes of each entry in this model.
EntryStatesOf(p) ==
    CASE RelPath(p) = "a.js"   -> {Absent, Locked, "x"}
      [] RelPath(p) = "lib.js" -> {Absent, Dir, "x"}
      [] RelPath(p) = "b.css"  -> {Locked, "x", "y"}
      [] RelPath(p) = "scripts/create-icons.py" -> {"x", "y"}
      [] OTHER                 -> {}

\* The trees the script is started on.
InitTrees == {
    [p \in Paths |-> IF RelPath(p) = "lib.js" THEN Absent ELSE "x"],
    [p \in Paths |-> CASE RelPath(p) = "lib.js" -> Dir
                       [] RelPath(p) = "b.css"  -> Locked
                       [] OTHER                 -> "x"],
    [p \in Paths |-> Absent] }

None == "None"

InSeq(x, s) == \E i \in DOMAIN s : s[i] = x

-----------------------------------------------------------------------------
(* get_file_hash, lines 23-29 *)

\* hashlib.md5(bytes).hexdigest() on the contents of the model
MD5(c) ==
    CASE c = "x" -> "9dd4e461268c8034f5c8564e155c67a6"
      [] c = "y" -> "415290769594460e2e485922904f345d"

\* open() raises for a missing entry, a directory and an unreadable file;
\* every Exception becomes None.
get_file_hash(tree, p) ==
    IF tree[p] \in Contents THEN MD5(tree[p]) ELSE None

-----------------------------------------------------------------------------
(* Snapshots: Python dicts, kept as sequences of items in insertion order *)

Keys(d) == {d[i].path : i \in DOMAIN d}
HasKey(d, k) == \E i \in DOMAIN d : d[i].path = k
Lookup(d, k) == d[CHOOSE i \in DOMAIN d : d[i].path = k].hash
AsMap(d) == {<<d[i].path, d[i].hash>> : i \in DOMAIN d}
IndexOf(d, k) == CHOOSE i \in DOMAIN d : d[i].path = k

\* files[k] = v: an existing key keeps its place, a new key goes last
DictSet(d, k, v) ==
    IF HasKey(d, k)
    THEN [i \in DOMAIN d |-> IF d[i].path = k THEN [path |-> k, hash |-> v] ELSE d[i]]
    ELSE Append(d, [path |-> k, hash |-> v])

-----------------------------------------------------------------------------
(* get_all_watched_files, lines 31-42 *)

\* WATCH_DIR.rglob('*' + ext): every entry of the tree, regular file or
\* directory, whose name ends with ext.
Matches(tree, ext) == {p \in Paths : tree[p] # Absent /\ p.ext = ext}

Perms(S) ==
    {s \in [1..Cardinality(S) -> S] :
        \A i, j \in 1..Cardinality(S) : i # j => s[i] # s[j]}

\* The orders in which the two nested loops can visit the entries: the
\* extensions in list order, the matches of one extension in any order
\* (rglob yields them in the order of the file system).
RECURSIVE EnumOrders(_, _)
EnumOrders(tree, i) ==
    IF i > Len(WATCH_EXTENSIONS) THEN {<< >>}
    ELSE {h \o t : h \in Perms(Matches(tree, WATCH_EXTENSIONS[i])),
                   t \in EnumOrders(tree, i + 1)}

\* The loop body, lines 36-41, over one visiting order; the files are read
\* from readTree, the tree as it is when each file is opened.
RECURSIVE CollectFiles(_, _, _, _)
CollectFiles(order, readTree, i, files) ==
    IF i > Len(order) THEN files
    ELSE LET p == order[i] IN
         IF InSeq(Name(p), IGNORE_FILES)
         THEN CollectFiles(order, readTree, i + 1, files)
         ELSE CollectFiles(order, readTree, i + 1,
                  DictSet(files, RelPath(p), get_file_hash(readTree, p)))

\* The walk descends into every directory it listed.  os.scandir raises
\* FileNotFoundError (NotADirectoryError) for a directory that is gone
\* (replaced by a file) by then, and rglob lets it through: pathlib swallows
\* PermissionError only.  The matches hashed so far are lost with it.
WalkCanRaise(enumTree, readTree) ==
    \E p \in Paths : enumTree[p] = Dir /\ readTree[p] # Dir

Raised == [raised |-> TRUE, files |-> << >>]
Returned(files) == [raised |-> FALSE, files |-> files]

\* Variant of get_all_watched_files that leaves out the files it could not
\* read; C3 is sensitive to it.
get_all_watched_files_SkipUnreadable(enumTree, readTree) ==
    {Returned(SelectSeq(CollectFiles(order, readTree, 1, << >>),
                        LAMBDA e : e.hash # None)) :
        order \in EnumOrders(enumTree, 1)}
    \cup (IF WalkCanRaise(enumTree, readTree) THEN {Raised} ELSE {})

\* Every outcome of a scan that enumerates enumTree and reads readTree: a
\* snapshot, or the exception of a walk that lost a directory.
get_all_watched_files(enumTree, readTree) ==
    {Returned(CollectFiles(order, readTree, 1, << >>)) :
        order \in EnumOrders(enumTree, 1)}
    \cup (IF WalkCanRaise(enumTree, readTree) THEN {Raised} ELSE {})

-----------------------------------------------------------------------------
(* The comparison, lines 68-79 *)

\* Variant of ModifiedRecords that passes over a file it could not read;
\* C7 is sensitive to the difference.
ModifiedRecordsSkipNone(previous, current) ==
    LET sel == SelectSeq(current,
                   LAMBDA e : /\ e.hash # None
                              /\ \/ ~HasKey(previous, e.path)
                                 \/ Lookup(previous, e.path) # e.hash)
    IN [i \in 1..Len(sel) |-> [path |-> sel[i].path, kind |-> "modified"]]

\* Variant of ModifiedRecords that takes a missing fingerprint for a change;
\* C10 is sensitive to the difference.
ModifiedRecordsNoneAlways(previous, current) ==
    LET sel == SelectSeq(current,
                   LAMBDA e : \/ e.hash = None
                              \/ ~HasKey(previous, e.path)
                              \/ Lookup(previous, e.path) # e.hash)
    IN [i \in 1..Len(sel) |-> [path |-> sel[i].path, kind |-> "modified"]]

ModifiedRecords(previous, current) ==
    LET sel == SelectSeq(current,
                   LAMBDA e : ~HasKey(previous, e.path)
                              \/ Lookup(previous, e.path) # e.hash)
    IN [i \in 1..Len(sel) |-> [path |-> sel[i].path, kind |-> "modified"]]

DeletedRecords(previous, current) ==
    LET sel == SelectSeq(previous, LAMBDA e : ~HasKey(current, e.path))
    IN [i \in 1..Len(sel) |-> [path |-> sel[i].path, kind |-> "deleted"]]

\* Variant of Diff that compares only the paths both snapshots have, so a
\* new file goes unreported; C1 is sensitive to it.
DiffNoNew(previous, current) ==
    LET sel == SelectSeq(current,
                   LAMBDA e : HasKey(previous, e.path)
                              /\ Lookup(previous, e.path) # e.hash)
    IN [i \in 1..Len(sel) |-> [path |-> sel[i].path, kind |-> "modified"]]
       \o DeletedRecords(previous, current)

\* Variant of Diff with the two loops swapped; C8 is sensitive to it.
DiffDeletedFirst(previous, current) ==
    DeletedRecords(previous, current) \o ModifiedRecords(previous, current)

Diff(previous, current) ==
    ModifiedRecords(previous, current) \o DeletedRecords(previous, current)

-----------------------------------------------------------------------------
(* The environment *)

\* What a scan can lose between listing an entry and using it: watched
\* regular files with content (lost before open()) and directories (lost
\* before the walk descends into them).  The directory scripts/ itself stays.
Raceable ==
    {p \in Paths : \/ /\ fs[p] \in Contents
                      /\ InSeq(p.ext, WATCH_EXTENSIONS)
                      /\ ~InSeq(Name(p), IGNORE_FILES)
                   \/ fs[p] = Dir}

\* Any number of them in one scan, each counted as a change of the tree.
RaceChoices ==
    {g \in SUBSET Raceable : fsChanges + Cardinality(g) <= MaxFsChanges}

Without(tree, gone) == [p \in Paths |-> IF p \in gone THEN Absent ELSE tree[p]]

\* Somebody creates, edits, locks, replaces or removes an entry.
FsChange ==
    /\ pc # "exited"
    /\ fsChanges < MaxFsChanges
    /\ \E p \in Paths : \E e \in EntryStatesOf(p) :
          /\ fs[p] # e
          /\ fs' = [fs EXCEPT ![p] = e]
          /\ touched' = IF pc = "start" THEN touched ELSE touched \cup {p}
    /\ fsChanges' = fsChanges + 1
    /\ churn' = "after"
    /\ UNCHANGED <<pc, file_hashes, current_hashes, changed_files, printed,
                   farewell, exitCode, cycled, enumFs, readFs, cycleStart,
                   reported, stable, exitedFrom>>

-----------------------------------------------------------------------------
(* The script *)

\* Variant of Baseline that starts from an empty snapshot instead of a scan;
\* C6 is sensitive to the difference.
BaselineEmpty ==
    /\ pc = "start"
    /\ file_hashes' = << >>
    /\ enumFs' = fs
    /\ readFs' = fs
    /\ churn' = "none"
    /\ pc' = "baselined"
    /\ UNCHANGED <<fs, current_hashes, changed_files, printed, farewell,
                   exitCode, cycled, fsChanges, cycleStart, touched,
                   reported, stable, exitedFrom>>

\* Line 57: the initial snapshot, outside the try block.  An exception of
\* the scan is caught nowhere: traceback, exit status 1.
Baseline ==
    /\ pc = "start"
    /\ \E gone \in RaceChoices :
          /\ \E out \in get_all_watched_files(fs, Without(fs, gone)) :
                IF out.raised
                THEN /\ pc' = "exited"
                     /\ exitCode' = 1
                     /\ exitedFrom' = pc
                     /\ UNCHANGED file_hashes
                ELSE /\ pc' = "baselined"
                     /\ file_hashes' = out.files
                     /\ UNCHANGED <<exitCode, exitedFrom>>
          /\ fs' = Without(fs, gone)
          /\ enumFs' = fs
          /\ readFs' = Without(fs, gone)
          /\ fsChanges' = fsChanges + Cardinality(gone)
          /\ touched' = gone
          /\ churn' = IF gone = {} THEN "none" ELSE "during"
    /\ UNCHANGED <<current_hashes, changed_files, printed, farewell, cycled,
                   cycleStart, reported, stable>>

\* Lines 58-62: the count is printed, then the try block and the loop are
\* entered.
EnterLoop ==
    /\ pc = "baselined"
    /\ pc' = "sleep"
    /\ UNCHANGED <<fs, file_hashes, current_hashes, changed_files, printed,
                   farewell, exitCode, cycled, fsChanges, enumFs, readFs,
                   cycleStart, touched, reported, churn, stable, exitedFrom>>

\* Line 63: time.sleep(1) returns and a poll cycle begins.
Sleep ==
    /\ pc = "sleep"
    /\ pc' = "scan"
    /\ cycleStart' = file_hashes
    /\ UNCHANGED <<fs, file_hashes, current_hashes, changed_files, printed,
                   farewell, exitCode, cycled, fsChanges, enumFs, readFs,
                   touched, reported, churn, stable, exitedFrom>>

\* Line 66: current_hashes = get_all_watched_files().  An exception of the
\* scan is no KeyboardInterrupt, so line 91 does not catch it: traceback,
\* exit status 1.
Scan ==
    /\ pc = "scan"
    /\ \E gone \in RaceChoices :
          /\ \E out \in get_all_watched_files(fs, Without(fs, gone)) :
                IF out.raised
                THEN /\ pc' = "exited"
                     /\ exitCode' = 1
                     /\ exitedFrom' = pc
                     /\ UNCHANGED current_hashes
                ELSE /\ pc' = "compare"
                     /\ current_hashes' = out.files
                     /\ UNCHANGED <<exitCode, exitedFrom>>
          /\ fs' = Without(fs, gone)
          /\ enumFs' = fs
          /\ readFs' = Without(fs, gone)
          /\ fsChanges' = fsChanges + Cardinality(gone)
          /\ touched' = touched \cup gone
          /\ stable' = IF gone # {} \/ churn = "after" THEN "changed"
                       ELSE IF churn = "during" THEN "sinceEnd"
                       ELSE "sinceStart"
          /\ churn' = IF gone = {} THEN "none" ELSE "during"
    /\ UNCHANGED <<file_hashes, changed_files, printed, farewell, cycled,
                   cycleStart, reported>>

\* Line 69: changed_files = []
Compare ==
    /\ pc = "compare"
    /\ changed_files' = << >>
    /\ pc' = "comparing"
    /\ UNCHANGED <<fs, file_hashes, current_hashes, printed, farewell,
                   exitCode, cycled, fsChanges, enumFs, readFs, cycleStart,
                   touched, reported, churn, stable, exitedFrom>>

\* Lines 72-79: the two loops append one record after the other.
CompareStep ==
    /\ pc = "comparing"
    /\ LET all == Diff(file_hashes, current_hashes)
       IN /\ Len(changed_files) < Len(all)
          /\ changed_files' = Append(changed_files, all[Len(changed_files) + 1])
    /\ UNCHANGED <<fs, pc, file_hashes, current_hashes, printed, farewell,
                   exitCode, cycled, fsChanges, enumFs, readFs, cycleStart,
                   touched, reported, churn, stable, exitedFrom>>

\* Both loops are through.
CompareDone ==
    /\ pc = "comparing"
    /\ Len(changed_files) = Len(Diff(file_hashes, current_hashes))
    /\ pc' = "decide"
    /\ UNCHANGED <<fs, file_hashes, current_hashes, changed_files, printed,
                   farewell, exitCode, cycled, fsChanges, enumFs, readFs,
                   cycleStart, touched, reported, churn, stable, exitedFrom>>

\* Line 81, changed_files empty: nothing is printed, nothing is assigned,
\* and the loop goes back to sleep.
NoChange ==
    /\ pc = "decide"
    /\ changed_files = << >>
    /\ pc' = "sleep"
    /\ cycled' = TRUE
    /\ UNCHANGED <<fs, file_hashes, current_hashes, changed_files, printed,
                   farewell, exitCode, fsChanges, enumFs, readFs, cycleStart,
                   touched, reported, churn, stable, exitedFrom>>

\* Variant of BeginReport that assigns the new snapshot before it prints;
\* C9 is sensitive to the difference.
BeginReportCommitFirst ==
    /\ pc = "decide"
    /\ changed_files # << >>
    /\ file_hashes' = current_hashes
    /\ pc' = "report"
    /\ printed' = 0
    /\ UNCHANGED <<fs, current_hashes, changed_files, farewell, exitCode,
                   cycled, fsChanges, enumFs, readFs, cycleStart, touched,
                   reported, churn, stable, exitedFrom>>

\* Lines 81-82, changed_files not empty: the header of the report.
BeginReport ==
    /\ pc = "decide"
    /\ changed_files # << >>
    /\ pc' = "report"
    /\ printed' = 0
    /\ UNCHANGED <<fs, file_hashes, current_hashes, changed_files, farewell,
                   exitCode, cycled, fsChanges, enumFs, readFs, cycleStart,
                   touched, reported, churn, stable, exitedFrom>>

\* Lines 83-84: one line of the report.
PrintLine ==
    /\ pc = "report"
    /\ printed < Len(changed_files)
    /\ printed' = printed + 1
    /\ reported' = reported \cup {changed_files[printed + 1].path}
    /\ UNCHANGED <<fs, pc, file_hashes, current_hashes, changed_files,
                   farewell, exitCode, cycled, fsChanges, enumFs, readFs,
                   cycleStart, touched, churn, stable, exitedFrom>>

\* Line 86: print_reload_instructions()
PrintInstructions ==
    /\ pc = "report"
    /\ printed = Len(changed_files)
    /\ pc' = "commit"
    /\ UNCHANGED <<fs, file_hashes, current_hashes, changed_files, printed,
                   farewell, exitCode, cycled, fsChanges, enumFs, readFs,
                   cycleStart, touched, reported, churn, stable, exitedFrom>>

\* Variant of Commit that forgets the assignment; C5 is sensitive to
\* the difference.
CommitNothing ==
    /\ pc = "commit"
    /\ pc' = "sleep"
    /\ cycled' = TRUE
    /\ UNCHANGED <<fs, file_hashes, current_hashes, changed_files, printed,
                   farewell, exitCode, fsChanges, enumFs, readFs, cycleStart,
                   touched, reported, churn, stable, exitedFrom>>

\* Line 89: file_hashes = current_hashes
Commit ==
    /\ pc = "commit"
    /\ file_hashes' = current_hashes
    /\ pc' = "sleep"
    /\ cycled' = TRUE
    /\ UNCHANGED <<fs, current_hashes, changed_files, printed, farewell,
                   exitCode, fsChanges, enumFs, readFs, cycleStart, touched,
                   reported, churn, stable, exitedFrom>>

\* The positions the try block of lines 61-89 covers.  The start-up, the
\* baseline scan and line 58 are before it, the handler is after it.
InTry(at) ==
    at \in {"sleep", "scan", "compare", "comparing", "decide", "report", "commit"}

\* KeyboardInterrupt is raised wherever the script is.  Inside the try block
\* line 91 catches it.  Anywhere else, the handler included, it is not
\* caught and the interpreter ends on SIGINT (status 130).
Interrupt ==
    /\ pc # "exited"
    /\ IF InTry(pc)
       THEN /\ pc' = "handler"
            /\ exitedFrom' = pc
            /\ UNCHANGED exitCode
       ELSE /\ pc' = "exited"
            /\ exitedFrom' = IF pc \in {"handler", "exiting"} THEN exitedFrom ELSE pc
            /\ exitCode' = 130
    /\ UNCHANGED <<fs, file_hashes, current_hashes, changed_files, printed,
                   farewell, cycled, fsChanges, enumFs, readFs, cycleStart,
                   touched, reported, churn, stable>>

\* Line 92: the farewell.
PrintFarewell ==
    /\ pc = "handler"
    /\ farewell' = TRUE
    /\ pc' = "exiting"
    /\ UNCHANGED <<fs, file_hashes, current_hashes, changed_files, printed,
                   exitCode, cycled, fsChanges, enumFs, readFs, cycleStart,
                   touched, reported, churn, stable, exitedFrom>>

\* Line 93: sys.exit(0)
SysExit ==
    /\ pc = "exiting"
    /\ exitCode' = 0
    /\ pc' = "exited"
    /\ UNCHANGED <<fs, file_hashes, current_hashes, changed_files, printed,
                   farewell, cycled, fsChanges, enumFs, readFs, cycleStart,
                   touched, reported, churn, stable, exitedFrom>>

Init ==
    /\ fs \in InitTrees
    /\ pc = "start"
    /\ file_hashes = << >>
    /\ current_hashes = << >>
    /\ changed_files = << >>
    /\ printed = 0
    /\ farewell = FALSE
    /\ exitCode = -1
    /\ cycled = FALSE
    /\ fsChanges = 0
    /\ enumFs = fs
    /\ readFs = fs
    /\ cycleStart = << >>
    /\ touched = {}
    /\ reported = {}
    /\ churn = "none"
    /\ stable = "changed"
    /\ exitedFrom = "none"

Next ==
    \/ FsChange
    \/ Baseline
    \/ EnterLoop
    \/ Sleep
    \/ Scan
    \/ Compare
    \/ CompareStep
    \/ CompareDone
    \/ NoChange
    \/ BeginReport
    \/ PrintLine
    \/ PrintInstructions
    \/ Commit
    \/ Interrupt
    \/ PrintFarewell
    \/ SysExit

Spec == Init /\ [][Next]_vars

-----------------------------------------------------------------------------
(* Vocabulary of the properties *)

Records(cf) == {cf[i] : i \in DOMAIN cf}
Modified(k) == [path |-> k, kind |-> "modified"]
Deleted(k) == [path |-> k, kind |-> "deleted"]

\* The running cycle has compared: both snapshots and the change list stand.
Compared == pc \in {"decide", "report", "commit"}
\* The running cycle is between its start and its commit.
InCycle == {"scan", "compare", "comparing", "decide", "report", "commit"}

IsFile(e) == e = Locked \/ e \in Contents
Watched(p) == InSeq(p.ext, WATCH_EXTENSIONS) /\ ~InSeq(Name(p), IGNORE_FILES)
WatchedFiles(tree) == {p \in Paths : IsFile(tree[p]) /\ Watched(p)}

\* Entry of key k differs between two snapshots (missing counts as differing).
EntryDiffers(a, b, k) ==
    \/ HasKey(a, k) # HasKey(b, k)
    \/ HasKey(a, k) /\ HasKey(b, k) /\ Lookup(a, k) # Lookup(b, k)

-----------------------------------------------------------------------------
\* C1: the change list holds exactly one modified record per path of the
\* current snapshot that is new or has another fingerprint, one deleted
\* record per path only the previous snapshot has, and nothing else; no
\* path has two records.
C1_ChangeSetExact ==
    Compared =>
        LET new == {k \in Keys(current_hashes) :
                       ~HasKey(file_hashes, k)
                       \/ Lookup(file_hashes, k) # Lookup(current_hashes, k)}
            gone == Keys(file_hashes) \ Keys(current_hashes)
        IN /\ Records(changed_files) = {Modified(k) : k \in new}
                                        \cup {Deleted(k) : k \in gone}
           /\ Len(changed_files) = Cardinality(new) + Cardinality(gone)
           /\ \A i, j \in DOMAIN changed_files :
                 changed_files[i].path = changed_files[j].path => i = j

C1_Witness ==
    /\ pc = "decide"
    /\ \E k \in Keys(current_hashes) :
          ~HasKey(file_hashes, k) /\ Modified(k) \in Records(changed_files)
    /\ \E k \in Keys(file_hashes) : Deleted(k) \in Records(changed_files)
    /\ \E k \in Keys(file_hashes) \cap Keys(current_hashes) :
          \A r \in Records(changed_files) : r.path # k

\* C2: a scan returns exactly the watched files of the tree (extension in
\* the watch list, name not ignored), so no ignored file and no file with
\* another extension is ever a key of a snapshot or part of a report.
C2_SnapshotKeysExact ==
    /\ Compared =>
          Keys(current_hashes) = {RelPath(p) : p \in WatchedFiles(enumFs)}
    /\ \A p \in Paths :
          ~Watched(p) => /\ ~HasKey(file_hashes, RelPath(p))
                         /\ ~HasKey(current_hashes, RelPath(p))
                         /\ RelPath(p) \notin reported

\* C3: a watched file that cannot be read keeps its key, with None; every
\* other watched file has its own fingerprint; the script goes on.  A scan
\* is given up only when the walk loses a directory, never for a file.
C3_UnreadableFileKept ==
    LET got(snap) ==
            \A p \in WatchedFiles(enumFs) :
                /\ HasKey(snap, RelPath(p))
                /\ Lookup(snap, RelPath(p)) =
                      IF readFs[p] \in Contents THEN MD5(readFs[p]) ELSE None
    IN /\ (pc = "compare" => got(current_hashes) /\ exitCode = -1)
       /\ (pc = "baselined" => got(file_hashes) /\ exitCode = -1)
       /\ (exitCode = 1 => WalkCanRaise(enumFs, readFs))

C3_Witness ==
    /\ pc = "compare"
    /\ \E p \in WatchedFiles(enumFs) : readFs[p] = Absent
    /\ \E p \in WatchedFiles(enumFs) : readFs[p] = Locked
    /\ \E p \in WatchedFiles(enumFs) :
          /\ readFs[p] \in Contents
          /\ Lookup(current_hashes, RelPath(p)) = MD5(readFs[p])

\* C4: the script stops only on an interrupt, and an interrupt always ends
\* it with the farewell message and exit status 0.
C4_InterruptExitsCleanly ==
    pc = "exited" => farewell /\ exitCode = 0

\* C5: when a poll cycle is over, with or without changes, the retained
\* snapshot equals the snapshot of that cycle as a mapping.
C5_RetainedEqualsScanned ==
    (pc = "sleep" /\ cycled) => AsMap(file_hashes) = AsMap(current_hashes)

C5_Witness ==
    /\ pc = "sleep"
    /\ cycled
    /\ reported # {}
    /\ changed_files = << >>
    /\ file_hashes # << >>

\* C6: nothing is reported before the first poll cycle has scanned, and a
\* path that did not change after the baseline scan is never reported.
C6_BaselineNeverReported ==
    /\ (\/ pc \in {"start", "baselined"}
        \/ ~cycled /\ pc \in {"sleep", "scan", "compare", "comparing"})
          => reported = {}
    /\ reported \subseteq {RelPath(p) : p \in touched}

C6_Witness ==
    /\ reported # {}
    /\ cycled
    /\ \E p \in WatchedFiles(fs) \ touched : HasKey(file_hashes, RelPath(p))

\* C7: a path of both snapshots whose fingerprint is None on both sides has
\* no record; one that is None on exactly one side has a modified record.
C7_AbsentFingerprints ==
    Compared =>
        \A k \in Keys(file_hashes) \cap Keys(current_hashes) :
            LET was == Lookup(file_hashes, k)
                is == Lookup(current_hashes, k)
            IN /\ (was = None /\ is = None =>
                      \A r \in Records(changed_files) : r.path # k)
               /\ ((was = None) # (is = None) =>
                      Modified(k) \in Records(changed_files))

C7_Witness ==
    /\ pc = "decide"
    /\ \E k \in Keys(file_hashes) \cap Keys(current_hashes) :
          Lookup(file_hashes, k) = None /\ Lookup(current_hashes, k) = None
    /\ \E k \in Keys(file_hashes) \cap Keys(current_hashes) :
          Lookup(file_hashes, k) # None /\ Lookup(current_hashes, k) = None
    /\ \E k \in Keys(file_hashes) \cap Keys(current_hashes) :
          Lookup(file_hashes, k) = None /\ Lookup(current_hashes, k) # None

\* C8: in a change list no deleted record precedes a modified record, the
\* modified records are in the order of the current snapshot and the deleted
\* records in the order of the retained snapshot.
C8_ModifiedBeforeDeleted ==
    Compared =>
        \A i, j \in DOMAIN changed_files :
            i < j =>
                LET a == changed_files[i]
                    b == changed_files[j]
                IN /\ ~(a.kind = "deleted" /\ b.kind = "modified")
                   /\ (a.kind = "modified" /\ b.kind = "modified" =>
                          IndexOf(current_hashes, a.path)
                             < IndexOf(current_hashes, b.path))
                   /\ (a.kind = "deleted" /\ b.kind = "deleted" =>
                          IndexOf(file_hashes, a.path)
                             < IndexOf(file_hashes, b.path))

C8_Witness ==
    /\ pc = "report"
    /\ Len(changed_files) = 2
    /\ changed_files[1].kind = "modified"
    /\ changed_files[2].kind = "deleted"
    /\ IndexOf(file_hashes, changed_files[2].path) = 1

\* C9 as stated: an interrupt is taken only while the script sleeps, so the
\* process never stops with a report emitted, partly or fully, and the
\* snapshot of that cycle not committed.
C9_CancelOnlyAtSleep ==
    pc = "exited" => exitedFrom \notin {"report", "commit"}

\* C9 as amended: an interrupt is taken wherever the cycle is and handled
\* by line 91; the retained snapshot is assigned only by the commit, so a
\* cycle that is running or was stopped leaves it as it was when the cycle
\* began, also when the report is already out; and the process ends with
\* status 0 only after the farewell.
C9_InterruptedCycleKeepsSnapshot ==
    /\ pc \in InCycle => file_hashes = cycleStart
    /\ exitedFrom \in InCycle => file_hashes = cycleStart
    /\ (pc = "exited" /\ exitCode = 0) => farewell /\ InTry(exitedFrom)

C9_Witness ==
    /\ pc = "exited"
    /\ exitedFrom = "report"
    /\ printed = 1
    /\ Len(changed_files) = 2
    /\ AsMap(file_hashes) # AsMap(current_hashes)
    /\ farewell
    /\ exitCode = 0

\* C10 as stated: a cycle prints iff its snapshot differs from the retained
\* one, every differing path is in the report, and once the directory stays
\* as the previous scan left it no cycle prints.
C10_ReportedExactlyOnce ==
    /\ pc = "decide" =>
          /\ (changed_files # << >>)
                <=> (AsMap(current_hashes) # AsMap(file_hashes))
          /\ \A k \in Keys(file_hashes) \cup Keys(current_hashes) :
                EntryDiffers(file_hashes, current_hashes, k)
                   => \E r \in Records(changed_files) : r.path = k
    /\ pc \in {"report", "commit"} => stable = "changed"

\* C10 as amended: the same, with the last part weakened to: once nothing
\* changes from the start of a scan on (nor while that scan runs), no later
\* cycle prints.
C10_QuietWhenUnchangedSinceScanStart ==
    /\ pc = "decide" =>
          /\ (changed_files # << >>)
                <=> (AsMap(current_hashes) # AsMap(file_hashes))
          /\ \A k \in Keys(file_hashes) \cup Keys(current_hashes) :
                EntryDiffers(file_hashes, current_hashes, k)
                   => \E r \in Records(changed_files) : r.path = k
    /\ pc \in {"report", "commit"} => stable # "sinceStart"

C10_Witness ==
    /\ pc = "decide"
    /\ cycled
    /\ stable = "sinceStart"
    /\ changed_files = << >>
    /\ reported # {}
    /\ \E k \in Keys(file_hashes) : Lookup(file_hashes, k) = None

====
